---- MODULE Spec2Model ----
(***************************************************************************)
(* A model of jkl's Site (site.go): NewSite/read walk the source tree and  *)
(* classify every entry, compile the templates and fill the Config;        *)
(* Generate clears the destination, renders every page and post and copies *)
(* the static files; Deploy uploads the destination tree.                  *)
(***************************************************************************)
EXTENDS Integers, Sequences, FiniteSets, TLC

VARIABLES
    src,      \* the source tree: the entries filepath.Walk delivers, in walk order
    cfgOk,    \* whether <src>/_config.yml parses
    pc,       \* control point of the calling program
    wi,       \* number of entries the walker has been called for
    layouts,  \* read's local list of template files
    posts,    \* Site.posts
    pages,    \* Site.pages
    files,    \* Site.files
    templ,    \* Site.templ
    Conf,     \* Site.Conf
    ret,      \* what NewSite handed to its caller
    dest,     \* the file system below Site.Dest
    gi,       \* loop index of writePages / writeStatic
    genRet,   \* what the last Generate returned
    nGen,     \* number of Generate calls made
    dropped,  \* pages whose ExecuteTemplate error was discarded in the current Generate
    firstTree,\* the number of Generate calls that returned nil, and the
              \* destination tree the first of them left
    bucket,   \* the objects held by the S3 bucket
    depRet,   \* what the last Deploy returned
    nDep      \* number of Deploy calls made

vars == <<src, cfgOk, pc, wi, layouts, posts, pages, files, templ, Conf, ret,
          dest, gi, genRet, nGen, dropped, firstTree, bucket, depRet, nDep>>

siteVars == <<layouts, posts, pages, files, templ, Conf>>
genVars == <<dest, gi, genRet, nGen, dropped, firstTree>>
depVars == <<bucket, depRet, nDep>>

----------------------------------------------------------------------------
(* Bounds *)

MaxWalkFiles == 2
MaxPosts == 3
MaxGenFiles == 3
MaxGenerates == 2
MaxDeploys == 1

----------------------------------------------------------------------------
(* Paths and file contents *)

Root == <<>>

Parent(p) == SubSeq(p, 1, Len(p) - 1)

\* The relative path of the i-th entry of the source tree.
RelPath(i) == <<i>>

\* Destination-relative URLs a parsed page can resolve to: a top-level file
\* (which is also the relative path of source entry 2) and a file below it.
Urls == {<<2>>, <<2, 1>>}

\* The longest source tree of any initial state.
MaxTree == CHOOSE n \in {MaxWalkFiles, MaxPosts + 1, MaxGenFiles + 1} :
               \A m \in {MaxWalkFiles, MaxPosts + 1, MaxGenFiles + 1} : m <= n

\* A path of the destination that no page and no static file is written to.
ForeignPath == <<0>>

DestPaths == {Root, ForeignPath} \cup {RelPath(i) : i \in 1..MaxTree} \cup Urls

NoData == <<"none", 0>>
Absent == [kind |-> "absent", data |-> NoData]
Dir == [kind |-> "dir", data |-> NoData]
File(d) == [kind |-> "file", data |-> d]

EmptyTree == [p \in DestPaths |-> Absent]

\* A destination left over from elsewhere: a directory holding a foreign file.
StaleTree == [p \in DestPaths |->
                 IF p \in {Root, <<2>>} THEN Dir
                 ELSE IF p \in {ForeignPath, <<2, 1>>} THEN File(<<"foreign", 0>>)
                 ELSE Absent]

\* Layout names: the base name and whether it carries the ".html" extension.
Layout(b, e) == [base |-> b, ext |-> e]

\* appendExt(layout, ".html")
appendExt(l) == [l EXCEPT !.ext = TRUE]

\* The name template.ParseFiles gives the template of entry i: its base name.
TemplName(i) == Layout(i, TRUE)

----------------------------------------------------------------------------
(* Source entries *)

Entry(err, dir, hidden, tmpl, post, page, ok, url, layout, tags, cats) ==
    [err |-> err, dir |-> dir, hidden |-> hidden, tmpl |-> tmpl, post |-> post,
     page |-> page, ok |-> ok, url |-> url, layout |-> layout,
     tags |-> tags, cats |-> cats]

DefUrl == <<2>>
DefLayout == Layout(1, FALSE)

\* A file that cannot be stat-ed and a directory that cannot be read.
ErrEntry == Entry(TRUE, FALSE, FALSE, FALSE, FALSE, FALSE, TRUE, DefUrl, DefLayout, <<>>, <<>>)
ErrDirEntry == Entry(TRUE, TRUE, FALSE, FALSE, FALSE, FALSE, TRUE, DefUrl, DefLayout, <<>>, <<>>)
DirEntry == Entry(FALSE, TRUE, FALSE, FALSE, FALSE, FALSE, TRUE, DefUrl, DefLayout, <<>>, <<>>)

\* Regular files with every combination of the path predicates; ok says
\* whether the file parses (post, page) or compiles (template).
FlagEntries ==
    {Entry(FALSE, FALSE, h, t, po, pa, ok, DefUrl, DefLayout, <<>>, <<>>) :
        h \in BOOLEAN, t \in BOOLEAN, po \in BOOLEAN, pa \in BOOLEAN, ok \in BOOLEAN}

\* ok is read only for a file that is parsed or compiled.
Parsed(e) == ~e.hidden /\ (e.tmpl \/ e.post \/ e.page)

WalkEntries == {ErrEntry, ErrDirEntry, DirEntry} \cup {e \in FlagEntries : e.ok \/ Parsed(e)}

\* A template file that compiles; as entry 1 it is the layout DefLayout names.
TemplEntry == Entry(FALSE, FALSE, FALSE, TRUE, FALSE, FALSE, TRUE, DefUrl, DefLayout, <<>>, <<>>)

\* A file no rule but the last one matches.
StaticEntry == Entry(FALSE, FALSE, FALSE, FALSE, FALSE, FALSE, TRUE, DefUrl, DefLayout, <<>>, <<>>)

\* Posts that parse, with the tags and categories of their front matter.
TagLists == {<<>>, <<"a">>, <<"b">>, <<"a", "b">>}
CategoryLists == {<<>>, <<"a">>}

PostEntries ==
    {Entry(FALSE, FALSE, FALSE, FALSE, TRUE, FALSE, TRUE, DefUrl, DefLayout, t, c) :
        t \in TagLists, c \in CategoryLists}

\* Pages and posts that parse, with their URL and layout, and a static file;
\* every post carries one tag and one category.
\* Layout(0, FALSE) names a layout no template file provides.
GenEntries ==
    {Entry(FALSE, FALSE, FALSE, FALSE, FALSE, TRUE, TRUE, u, l, <<>>, <<>>) :
        u \in Urls, l \in {DefLayout, Layout(0, FALSE)}}
    \cup {Entry(FALSE, FALSE, FALSE, FALSE, TRUE, FALSE, TRUE, u, DefLayout, <<"a">>, <<"a">>) :
        u \in Urls}
    \cup {StaticEntry}

SeqsUpTo(S, n) == UNION {[1..k -> S] : k \in 0..n}

----------------------------------------------------------------------------
(* Config *)

\* Config.Set(key, value): last write wins.
ConfSet(c, k, v) == [x \in (DOMAIN c) \cup {k} |-> IF x = k THEN v ELSE c[x]]

EmptyConf == [x \in {} |-> 0]

\* What ParseConfig returns: the settings of _config.yml.
FileConf == [title |-> <<"site">>]

----------------------------------------------------------------------------
(* The path predicates of the classifier *)

isHiddenOrTemp(e) == e.hidden
isTemplate(e) == e.tmpl
isPost(e) == e.post
isPage(e) == e.page
\* Everything else is a static file.
isStatic(e) == TRUE

----------------------------------------------------------------------------
(* Initial states *)

InitRest ==
    /\ cfgOk \in BOOLEAN
    /\ pc = "start"
    /\ wi = 0
    /\ layouts = <<>>
    /\ posts = <<>>
    /\ pages = <<>>
    /\ files = <<>>
    /\ templ = [compiled |-> FALSE, names |-> {}]
    /\ Conf = FileConf
    /\ ret = "none"
    /\ dest \in {EmptyTree, StaleTree}
    /\ gi = 0
    /\ genRet = "none"
    /\ nGen = 0
    /\ dropped = {}
    /\ firstTree = [n |-> 0, tree |-> EmptyTree]
    /\ bucket = EmptyTree
    /\ depRet = "none"
    /\ nDep = 0

\* Any tree of entries of every kind.
Init ==
    /\ src \in SeqsUpTo(WalkEntries, MaxWalkFiles)
    /\ InitRest

\* A layout followed by posts with every combination of tags and categories
\* and by static files.
InitAgg ==
    /\ src \in {<<TemplEntry>> \o ps :
                  ps \in SeqsUpTo(PostEntries \cup {StaticEntry}, MaxPosts)} \cup {<<>>}
    /\ InitRest

\* A layout followed by pages, posts and static files with every
\* combination of URLs and layouts.
InitGen ==
    /\ src \in {<<TemplEntry>> \o ps : ps \in SeqsUpTo(GenEntries, MaxGenFiles)} \cup {<<>>}
    /\ InitRest

----------------------------------------------------------------------------
(* NewSite *)

\* NewSite up to the call of site.read: ParseConfig fails or the Site is built.
NewSite ==
    /\ pc = "start"
    /\ IF cfgOk
         THEN /\ pc' = IF Len(src) = 0 THEN "compile" ELSE "walk"
              /\ ret' = ret
         ELSE /\ pc' = "returned"
              /\ ret' = "error"
    /\ UNCHANGED <<src, cfgOk, wi, siteVars, genVars, depVars>>

\* The switch with the template case moved above the hidden-or-temp case.
switchCaseTemplateFirst(e) ==
    IF e.err THEN "err"
    ELSE IF e.dir THEN "dir"
    ELSE IF isTemplate(e) THEN "template"
    ELSE IF isHiddenOrTemp(e) THEN "ignored"
    ELSE IF isPost(e) THEN "post"
    ELSE IF isPage(e) THEN "page"
    ELSE IF isStatic(e) THEN "static"
    ELSE "none"

\* The case of the walker's switch that entry e takes; a switch takes the
\* first case whose condition holds, and none when no condition holds.
switchCase(e) ==
    IF e.err THEN "err"
    ELSE IF e.dir THEN "dir"
    ELSE IF isHiddenOrTemp(e) THEN "ignored"
    ELSE IF isTemplate(e) THEN "template"
    ELSE IF isPost(e) THEN "post"
    ELSE IF isPage(e) THEN "page"
    ELSE IF isStatic(e) THEN "static"
    ELSE "none"

\* The walker dropping the error of ParsePost and ParsePage.
walkerReturnNil(e) == "nil"

\* What the walker returns for entry e: the error of ParsePost or ParsePage,
\* and nil in every other case.
walkerReturn(e) ==
    IF switchCase(e) \in {"post", "page"} /\ ~e.ok THEN "error" ELSE "nil"

\* The walk ending after the first entry whatever the tree holds.
AfterWalkerOnce(i, r) ==
    IF r = "error" THEN "returned" ELSE "compile"

\* The control point after the walker returned r for entry i: on an error
\* filepath.Walk, read and NewSite return it; otherwise Walk calls the walker
\* for the next entry, or read goes on to compile the templates.
AfterWalker(i, r) ==
    IF r = "error" THEN "returned"
    ELSE IF i < Len(src) THEN "walk"
    ELSE "compile"

\* One call of the walker, for entry wi + 1.
Walker ==
    /\ pc = "walk"
    /\ wi < Len(src)
    /\ LET i == wi + 1
           e == src[i]
           c == switchCase(e)
           r == walkerReturn(e)
       IN /\ wi' = i
          /\ layouts' = IF c = "template" THEN Append(layouts, i) ELSE layouts
          /\ posts' = IF c = "post" /\ r = "nil" THEN Append(posts, i) ELSE posts
          /\ pages' = IF c = "page" /\ r = "nil" THEN Append(pages, i) ELSE pages
          /\ files' = IF c = "static" THEN Append(files, i) ELSE files
          /\ pc' = AfterWalker(i, r)
          /\ ret' = IF r = "error" THEN "error" ELSE ret
    /\ UNCHANGED <<src, cfgOk, templ, Conf, genVars, depVars>>

\* template.Must(template.ParseFiles(layouts...)): ParseFiles fails when no
\* file is named or when a file does not parse, and Must panics on failure.
Compile ==
    /\ pc = "compile"
    /\ IF Len(layouts) > 0 /\ \A k \in 1..Len(layouts) : src[layouts[k]].ok
         THEN /\ templ' = [compiled |-> TRUE,
                           names |-> {TemplName(layouts[k]) : k \in 1..Len(layouts)}]
              /\ pc' = "inject"
              /\ ret' = ret
         ELSE /\ pc' = "dead"
              /\ ret' = "panic"
              /\ templ' = templ
    /\ UNCHANGED <<src, cfgOk, wi, layouts, posts, pages, files, Conf, genVars, depVars>>

\* s.Conf.Set("posts", s.posts); s.Conf.Set("time", time.Now())
Inject ==
    /\ pc = "inject"
    /\ Conf' = ConfSet(ConfSet(Conf, "posts", posts), "time", <<"now">>)
    /\ pc' = "tags"
    /\ UNCHANGED <<src, cfgOk, wi, layouts, posts, pages, files, templ, ret, genVars, depVars>>

GetTags(p) == src[p].tags
GetCategories(p) == src[p].cats

\* The body of the inner loop of calculateTags for one tag of one post.
tagsPut(tags, tag, post) ==
    IF tag \notin DOMAIN tags
      THEN ConfSet(tags, tag, Append(<<>>, post))
      ELSE ConfSet(tags, tag, <<post>>)

RECURSIVE tagsOfPost(_, _, _)
tagsOfPost(tags, ls, post) ==
    IF ls = <<>> THEN tags
    ELSE tagsOfPost(tagsPut(tags, Head(ls), post), Tail(ls), post)

RECURSIVE tagsLoop(_, _)
tagsLoop(tags, ps) ==
    IF ps = <<>> THEN tags
    ELSE tagsLoop(tagsOfPost(tags, GetTags(Head(ps)), Head(ps)), Tail(ps))

\* The map calculateTags stores under "tags".
calculateTags(ps) == tagsLoop(EmptyConf, ps)

\* The body of the inner loop of calculateCategories.
categoriesPut(categories, category, post) ==
    IF category \notin DOMAIN categories
      THEN ConfSet(categories, category, Append(<<>>, post))
      ELSE ConfSet(categories, category, <<post>>)

RECURSIVE categoriesOfPost(_, _, _)
categoriesOfPost(categories, ls, post) ==
    IF ls = <<>> THEN categories
    ELSE categoriesOfPost(categoriesPut(categories, Head(ls), post), Tail(ls), post)

RECURSIVE categoriesLoop(_, _)
categoriesLoop(categories, ps) ==
    IF ps = <<>> THEN categories
    ELSE categoriesLoop(categoriesOfPost(categories, GetCategories(Head(ps)), Head(ps)),
                        Tail(ps))

\* The map calculateCategories stores under "categories".
calculateCategories(ps) == categoriesLoop(EmptyConf, ps)

\* s.calculateTags()
CalculateTags ==
    /\ pc = "tags"
    /\ Conf' = ConfSet(Conf, "tags", calculateTags(posts))
    /\ pc' = "categories"
    /\ UNCHANGED <<src, cfgOk, wi, layouts, posts, pages, files, templ, ret, genVars, depVars>>

\* s.calculateCategories(); read returns nil and NewSite returns the Site.
CalculateCategories ==
    /\ pc = "categories"
    /\ Conf' = ConfSet(Conf, "categories", calculateCategories(posts))
    /\ pc' = "idle"
    /\ ret' = "site"
    /\ UNCHANGED <<src, cfgOk, wi, layouts, posts, pages, files, templ, genVars, depVars>>

----------------------------------------------------------------------------
(* The destination file system *)

\* Clear leaving the destination as it is.
RemoveNothing(fs) == fs

\* os.RemoveAll(s.Dest)
RemoveAll(fs) == [p \in DOMAIN fs |-> Absent]

\* os.MkdirAll(p): nil when p is a directory already, an error when p or one
\* of its ancestors is a file, and otherwise every missing ancestor is made.
RECURSIVE MkdirAll(_, _)
MkdirAll(fs, p) ==
    IF fs[p].kind = "dir" THEN [fs |-> fs, ok |-> TRUE]
    ELSE IF fs[p].kind = "file" THEN [fs |-> fs, ok |-> FALSE]
    ELSE IF p = Root THEN [fs |-> [fs EXCEPT ![p] = Dir], ok |-> TRUE]
    ELSE LET r == MkdirAll(fs, Parent(p))
         IN IF r.ok THEN [fs |-> [r.fs EXCEPT ![p] = Dir], ok |-> TRUE] ELSE r

\* ioutil.WriteFile(f, data): creates or truncates f; fails when the parent
\* is no directory or f is a directory.
WriteFile(fs, f, data) ==
    IF fs[Parent(f)].kind # "dir" \/ fs[f].kind = "dir"
      THEN [fs |-> fs, ok |-> FALSE]
      ELSE [fs |-> [fs EXCEPT ![f] = File(data)], ok |-> TRUE]

\* The bytes of the static source file of entry i.
SrcBytes(i) == <<"static", i>>

\* copyTo(from, to): makes the parent directories of to and copies the bytes.
copyTo(fs, i) ==
    LET r == MkdirAll(fs, Parent(RelPath(i)))
    IN IF r.ok THEN WriteFile(r.fs, RelPath(i), SrcBytes(i)) ELSE r

----------------------------------------------------------------------------
(* Generate *)

GetUrl(p) == src[p].url
GetLayout(p) == src[p].layout

\* pages = append(append([]Page{}, s.pages...), s.posts...)
allPages == pages \o posts

\* s.templ.ExecuteTemplate(&buf, layout, data): the whole page when the set
\* holds a template of that name, an error and what was written so far when
\* it does not.
ExecuteTemplate(names, layout, p) ==
    IF layout \in names
      THEN [ok |-> TRUE, buf |-> <<"html", p>>]
      ELSE [ok |-> FALSE, buf |-> <<"partial", p>>]

\* Generate, up to s.Clear().
GenerateClear ==
    /\ pc = "idle"
    /\ nGen < MaxGenerates
    /\ nGen' = nGen + 1
    /\ dropped' = {}
    /\ gi' = 0
    /\ \E io \in BOOLEAN :
         IF io
           THEN /\ dest' = RemoveAll(dest)
                /\ pc' = "prep"
                /\ genRet' = "none"
           ELSE /\ dest' = dest
                /\ pc' = "idle"
                /\ genRet' = "error"
    /\ UNCHANGED <<src, cfgOk, wi, siteVars, ret, firstTree, depVars>>

\* s.Prep()
GeneratePrep ==
    /\ pc = "prep"
    /\ \E io \in BOOLEAN :
         LET r == MkdirAll(dest, Root)
         IN IF io /\ r.ok
              THEN /\ dest' = r.fs
                   /\ pc' = "writePages"
                   /\ genRet' = genRet
              ELSE /\ dest' = dest
                   /\ pc' = "idle"
                   /\ genRet' = "error"
    /\ UNCHANGED <<src, cfgOk, wi, siteVars, ret, gi, nGen, dropped, firstTree, depVars>>

\* The iteration keeping a file that exists already instead of truncating it.
writePageKeep(fs, names, p) ==
    LET url == GetUrl(p)
        layout == appendExt(GetLayout(p))
        m == MkdirAll(fs, Parent(url))
        x == ExecuteTemplate(names, layout, p)
        w == IF m.fs[url].kind = "file" THEN [fs |-> m.fs, ok |-> TRUE]
             ELSE WriteFile(m.fs, url, x.buf)
    IN IF ~m.ok THEN [fs |-> m.fs, err |-> TRUE, failed |-> FALSE]
       ELSE [fs |-> w.fs, err |-> ~w.ok, failed |-> ~x.ok]

\* What one iteration of the loop of writePages does to the destination for
\* page p: err says whether the iteration returns an error, failed whether
\* ExecuteTemplate returned one.
writePage(fs, names, p) ==
    LET url == GetUrl(p)
        layout == appendExt(GetLayout(p))
        m == MkdirAll(fs, Parent(url))
        x == ExecuteTemplate(names, layout, p)
        w == WriteFile(m.fs, url, x.buf)
    IN IF ~m.ok THEN [fs |-> m.fs, err |-> TRUE, failed |-> FALSE]
       ELSE [fs |-> w.fs, err |-> ~w.ok, failed |-> ~x.ok]

\* One iteration of the loop of writePages.
WritePage ==
    /\ pc = "writePages"
    /\ gi < Len(allPages)
    /\ LET p == allPages[gi + 1]
           r == writePage(dest, templ.names, p)
       IN \E io \in BOOLEAN :
            IF io /\ ~r.err
              THEN /\ dest' = r.fs
                   /\ dropped' = IF r.failed THEN dropped \cup {p} ELSE dropped
                   /\ gi' = gi + 1
                   /\ pc' = pc
                   /\ genRet' = genRet
              ELSE /\ dest' = IF io THEN r.fs ELSE dest
                   /\ dropped' = dropped
                   /\ gi' = gi
                   /\ pc' = "idle"
                   /\ genRet' = "error"
    /\ UNCHANGED <<src, cfgOk, wi, siteVars, ret, nGen, firstTree, depVars>>

\* writePages returns nil and Generate calls writeStatic.
WritePagesDone ==
    /\ pc = "writePages"
    /\ gi = Len(allPages)
    /\ pc' = "writeStatic"
    /\ gi' = 0
    /\ UNCHANGED <<src, cfgOk, wi, siteVars, ret, dest, genRet, nGen, dropped,
                   firstTree, depVars>>

\* One iteration of the loop of writeStatic.
CopyStatic ==
    /\ pc = "writeStatic"
    /\ gi < Len(files)
    /\ LET r == copyTo(dest, files[gi + 1])
       IN \E io \in BOOLEAN :
            IF io /\ r.ok
              THEN /\ dest' = r.fs
                   /\ gi' = gi + 1
                   /\ pc' = pc
                   /\ genRet' = genRet
              ELSE /\ dest' = IF io THEN r.fs ELSE dest
                   /\ gi' = gi
                   /\ pc' = "idle"
                   /\ genRet' = "error"
    /\ UNCHANGED <<src, cfgOk, wi, siteVars, ret, nGen, dropped, firstTree, depVars>>

\* writeStatic returns nil and Generate returns nil.
WriteStaticDone ==
    /\ pc = "writeStatic"
    /\ gi = Len(files)
    /\ pc' = "idle"
    /\ genRet' = "nil"
    /\ firstTree' = [n |-> firstTree.n + 1,
                      tree |-> IF firstTree.n = 0 THEN dest ELSE firstTree.tree]
    /\ UNCHANGED <<src, cfgOk, wi, siteVars, ret, dest, gi, nGen, dropped, depVars>>

----------------------------------------------------------------------------
(* Deploy *)

\* The order in which filepath.Walk visits two paths: a directory before
\* its entries, the entries of a directory in lexical order.
RECURSIVE PathLess(_, _)
PathLess(p, q) ==
    IF p = <<>> THEN q # <<>>
    ELSE IF q = <<>> THEN FALSE
    ELSE IF Head(p) # Head(q) THEN Head(p) < Head(q)
    ELSE PathLess(Tail(p), Tail(q))

RECURSIVE InWalkOrder(_)
InWalkOrder(S) ==
    IF S = {} THEN <<>>
    ELSE LET m == CHOOSE p \in S : \A q \in S \ {p} : PathLess(p, q)
         IN <<m>> \o InWalkOrder(S \ {m})

\* The regular files below Dest, in the order the walk of Deploy meets them.
destFiles == InWalkOrder({p \in DOMAIN dest : dest[p].kind = "file"})

\* Deploy: the walk uploads the files one by one and stops at the first
\* ReadFile or Put that fails; the walker dereferences a nil FileInfo when
\* Dest itself cannot be stat-ed.
Deploy ==
    /\ pc = "idle"
    /\ nDep < MaxDeploys
    /\ nDep' = nDep + 1
    /\ IF dest[Root].kind = "absent"
         THEN /\ pc' = "dead"
              /\ depRet' = "panic"
              /\ bucket' = bucket
         ELSE \E n \in 0..Len(destFiles) :
                /\ bucket' = [p \in DOMAIN bucket |->
                                 IF \E k \in 1..n : destFiles[k] = p
                                   THEN dest[p] ELSE bucket[p]]
                /\ depRet' = IF n = Len(destFiles) THEN "nil" ELSE "error"
                /\ pc' = pc
    /\ UNCHANGED <<src, cfgOk, wi, siteVars, ret, genVars>>

----------------------------------------------------------------------------
(* Properties *)

Range(f) == {f[x] : x \in DOMAIN f}
Labels == {"a", "b"}
Loaded == "tags" \in DOMAIN Conf /\ "categories" \in DOMAIN Conf

\* Whether post p is in the list idx stores under label l.
Listed(idx, l, p) == l \in DOMAIN idx /\ p \in Range(idx[l])

\* C1: once calculateTags and calculateCategories have run, every post is
\* listed under each tag (category) it declares and under no other label.
C1_EveryPostListed ==
    Loaded =>
      \A k \in 1..Len(posts) : \A l \in Labels :
        /\ Listed(Conf["tags"], l, posts[k]) <=> l \in Range(GetTags(posts[k]))
        /\ Listed(Conf["categories"], l, posts[k]) <=> l \in Range(GetCategories(posts[k]))

Declaring(ps, l, labelsOf(_)) == SelectSeq(ps, LAMBDA p : l \in Range(labelsOf(p)))

\* C2: the list stored under a label is the subsequence of s.posts made of
\* the posts that declare the label, in the order of s.posts.
C2_BucketIsSubsequence ==
    Loaded =>
      \A l \in Labels :
        /\ l \in DOMAIN Conf["tags"] => Conf["tags"][l] = Declaring(posts, l, GetTags)
        /\ l \in DOMAIN Conf["categories"] =>
             Conf["categories"][l] = Declaring(posts, l, GetCategories)

\* The lists of the walk that hold entry i.
Holding(i) ==
    {n \in {"layouts", "posts", "pages", "files"} :
        LET l == CASE n = "layouts" -> layouts [] n = "posts" -> posts
                   [] n = "pages" -> pages [] OTHER -> files
        IN \E k \in 1..Len(l) : l[k] = i}

\* ParsePost or ParsePage is called for entry e and fails.
ParseFails(e) ==
    ~e.err /\ ~e.dir /\ ~e.hidden /\ ~e.tmpl /\ (e.post \/ e.page) /\ ~e.ok

\* C3, as claimed: every file the walker was called for without a walk error
\* is in at most one list, and in none exactly when it is hidden or temporary.
C3_NoneIffIgnored ==
    \A i \in 1..wi :
      (~src[i].dir /\ ~src[i].err) =>
        /\ Cardinality(Holding(i)) <= 1
        /\ Holding(i) = {} <=> src[i].hidden

\* C3, amended: every non-directory entry the walker was called for is in at
\* most one list; it is in none exactly when it is hidden or temporary, the
\* walk reported an error for it, or its parse failed. A hidden or temporary
\* file is in no list whatever else it matches, the rules after it apply in
\* the order template, post, page, static, and a directory is in no list.
C3_OneCategory ==
    \A i \in 1..wi :
      LET e == src[i]
      IN /\ e.dir => Holding(i) = {}
         /\ ~e.dir =>
              /\ Cardinality(Holding(i)) <= 1
              /\ Holding(i) = {} <=> (e.hidden \/ e.err \/ ParseFails(e))
              /\ (~e.err /\ ~e.hidden /\ e.tmpl) => Holding(i) = {"layouts"}
              /\ (~e.err /\ ~e.hidden /\ ~e.tmpl /\ e.post /\ e.ok) => Holding(i) = {"posts"}
              /\ (~e.err /\ ~e.hidden /\ ~e.tmpl /\ ~e.post /\ e.page /\ e.ok) =>
                   Holding(i) = {"pages"}
              /\ (~e.err /\ ~e.hidden /\ ~e.tmpl /\ ~e.post /\ ~e.page) =>
                   Holding(i) = {"files"}

\* A hidden file that also matches the template and the post rule has been
\* walked, and so has a file matching both of these rules that is not hidden.
C3_Witness ==
    /\ wi = 2
    /\ src[1].hidden /\ src[1].tmpl /\ src[1].post /\ ~src[1].dir /\ ~src[1].err
    /\ ~src[2].hidden /\ src[2].tmpl /\ src[2].post /\ ~src[2].dir /\ ~src[2].err
    /\ layouts = <<2>>

InjectedKeys == {"posts", "time", "tags", "categories"}

\* C4: when ParseConfig fails, or ParsePost or ParsePage fails for a file of
\* the walk, NewSite has returned an error and no Site: the walk stopped at
\* that file, no template is compiled, nothing is injected into Config and
\* no operation of a Site runs.
C4_FailFast ==
    /\ (pc # "start" /\ ~cfgOk) =>
         /\ ret = "error" /\ pc = "returned"
         /\ wi = 0 /\ posts = <<>> /\ pages = <<>>
         /\ ~templ.compiled /\ DOMAIN Conf \cap InjectedKeys = {}
         /\ nGen = 0 /\ nDep = 0
    /\ \A i \in 1..wi :
         ParseFails(src[i]) =>
           /\ ret = "error" /\ pc = "returned"
           /\ wi = i
           /\ ~templ.compiled /\ DOMAIN Conf \cap InjectedKeys = {}
           /\ nGen = 0 /\ nDep = 0

\* A post was parsed and appended before the parse of the next file failed.
C4_Witness ==
    /\ wi = 2 /\ ParseFails(src[2])
    /\ Len(posts) = 1
    /\ ret = "error"

\* The templates found by the walk do not compile.
BadLayouts == Len(layouts) = 0 \/ \E k \in 1..Len(layouts) : ~src[layouts[k]].ok

\* C5: when the templates do not compile, NewSite has returned an error.
C5_CompileFailureReturned ==
    (pc \notin {"start", "walk", "compile"} /\ BadLayouts) => ret = "error"

GenerateReturnedNil == pc = "idle" /\ genRet = "nil"

\* C6: a failing template execution makes Generate return an error, so in
\* a Generate that returned nil every template execution succeeded.
C6_RenderErrorReturned ==
    GenerateReturnedNil => dropped = {}

\* C7: every Generate that returns nil leaves the destination tree the first
\* such Generate left, with no file in it that was there before the call and
\* is not written by the run; and no step taken once NewSite has returned
\* changes s.posts, s.pages, s.files or Config.
C7_Idempotent ==
    /\ [](GenerateReturnedNil =>
            /\ dest = firstTree.tree
            /\ \A p \in DOMAIN dest : dest[p].data[1] # "foreign")
    /\ [][ret = "site" => UNCHANGED <<posts, pages, files, Conf>>]_vars

\* Generate has returned nil twice and left files.
C7_Witness ==
    /\ GenerateReturnedNil
    /\ firstTree.n = 2
    /\ \E p \in DOMAIN dest : dest[p].kind = "file"
    /\ Len(files) > 0 /\ Len(allPages) > 0

\* The bytes the template execution for page p leaves in the buffer.
Rendering(p) == ExecuteTemplate(templ.names, appendExt(GetLayout(p)), p).buf

StaticPaths == {RelPath(files[k]) : k \in 1..Len(files)}
PageUrls == {GetUrl(allPages[k]) : k \in 1..Len(allPages)}
RenderedFiles ==
    {p \in DOMAIN dest : dest[p].kind = "file" /\ dest[p].data[1] \in {"html", "partial"}}

StaticsCopied ==
    \A k \in 1..Len(files) : dest[RelPath(files[k])] = File(SrcBytes(files[k]))

\* C8, as claimed: after a Generate that returned nil (taken here with every
\* template execution succeeding) every page and post has its own rendering
\* at its URL, there are as many rendered files as pages and posts, and
\* every static file is copied.
C8_EveryPageHasItsFile ==
    (GenerateReturnedNil /\ dropped = {}) =>
      /\ \A k \in 1..Len(allPages) :
           dest[GetUrl(allPages[k])] = File(Rendering(allPages[k]))
      /\ Cardinality(RenderedFiles) = Len(allPages)
      /\ StaticsCopied

\* The last page, in rendering order, that resolves to URL u.
LastAt(u) ==
    allPages[CHOOSE k \in 1..Len(allPages) :
                /\ GetUrl(allPages[k]) = u
                /\ \A j \in (k + 1)..Len(allPages) : GetUrl(allPages[j]) # u]

\* C8, amended: after a Generate that returned nil every static file is
\* copied, every URL that is not the path of a static file holds the
\* rendering of the last page or post resolving to it, and there are as many
\* rendered files as there are such URLs.
C8_LastWriterWins ==
    GenerateReturnedNil =>
      /\ StaticsCopied
      /\ \A u \in PageUrls \ StaticPaths : dest[u] = File(Rendering(LastAt(u)))
      /\ RenderedFiles = PageUrls \ StaticPaths

\* Generate returned nil for a site in which two pages resolve to one URL
\* and a static file is copied.
C8_Witness ==
    /\ GenerateReturnedNil
    /\ \E j, k \in 1..Len(allPages) : j < k /\ GetUrl(allPages[j]) = GetUrl(allPages[k])
    /\ Len(files) > 0

\* C9: the values under "posts", "tags" and "categories" are stored only
\* after the walk has ended and are those of the final post list; they are
\* stored before Generate renders anything; and once NewSite has returned
\* no step changes Config or the compiled templates.
C9_PhaseOrder ==
    /\ [](/\ DOMAIN Conf \cap InjectedKeys # {} =>
               /\ pc # "walk" /\ wi = Len(src)
               /\ Conf["posts"] = posts
          /\ "tags" \in DOMAIN Conf => Conf["tags"] = calculateTags(posts)
          /\ "categories" \in DOMAIN Conf =>
               Conf["categories"] = calculateCategories(posts)
          /\ (nGen > 0 \/ nDep > 0) => (InjectedKeys \subseteq DOMAIN Conf /\ templ.compiled))
    /\ [][ret = "site" => (Conf' = Conf /\ templ' = templ)]_vars

\* A page is being rendered for a site with two posts, a tag and a category.
C9_Witness ==
    /\ pc = "writePages" /\ gi >= 1
    /\ Len(posts) >= 2
    /\ Loaded
    /\ "a" \in DOMAIN Conf["tags"] /\ "a" \in DOMAIN Conf["categories"]

\* C10: a walk error is fatal, so NewSite returns a Site only when the walk
\* reported no error for any entry.
C10_WalkErrorFatal ==
    ret = "site" => \A i \in 1..wi : ~src[i].err

----------------------------------------------------------------------------

Next ==
    \/ NewSite \/ Walker \/ Compile \/ Inject
    \/ CalculateTags \/ CalculateCategories
    \/ GenerateClear \/ GeneratePrep \/ WritePage \/ WritePagesDone
    \/ CopyStatic \/ WriteStaticDone \/ Deploy

Spec == Init /\ [][Next]_vars
SpecAgg == InitAgg /\ [][Next]_vars
SpecGen == InitGen /\ [][Next]_vars

====
